---- MODULE Spec2Model ----
(***************************************************************************)
(* A model of the chess debugging scripts of daily-chess:                  *)
(*   src/validate_en_passant.py   validate_en_passant                      *)
(*   src/test/analyze_position.py parse_and_display_board,                 *)
(*                                analyze_pawn_moves                       *)
(*   src/test/test_bishop_moves.py parse_fen_to_board, find_pieces,        *)
(*                                can_bishop_move_to, test_bishop_scenarios*)
(* A Python str is a sequence of one-character strings; a Python list is a *)
(* sequence; Python index i is TLA+ index i + 1.                           *)
(***************************************************************************)
EXTENDS Integers, Sequences, FiniteSets, TLC

VARIABLES
    position,   \* the Position (spec 3) the state string encodes: board, stm, ep
    fen,        \* the state string handed to the scripts
    last_move,  \* validate_en_passant's second argument
    pc,
    corrected,  \* what validate_en_passant returned or raised
    actual_ep,  \* test_validation's reading of the returned en-passant field
    grid,       \* the board a test script parsed from fen
    side,       \* the colour argument: analyze_pawn_moves' color
    valid_moves, \* the list analyze_pawn_moves returns
    printed,    \* the lines analyze_pawn_moves prints: pawn, move, double advance
    move,       \* test_bishop_scenarios: the move tested, such as Be2
    bishops,    \* the squares find_pieces returned
    dest_square,
    idx,        \* the next bishop of the for loop, from 1
    checked,    \* per bishop tried: what can_bishop_move_to returned
    valid_move

pawn_vars == <<valid_moves, printed>>
bishop_vars == <<move, bishops, dest_square, idx, checked, valid_move>>
vars == <<position, fen, last_move, pc, corrected, actual_ep,
          grid, side, valid_moves, printed,
          move, bishops, dest_square, idx, checked, valid_move>>

\* Python's None where a str or a list is expected, and a result not yet there
None == <<>>
NoResult == [exc |-> "unset", value |-> <<>>]

\* the variables of the bishop test, before it runs
BishopIdle ==
    /\ move = None
    /\ bishops = None
    /\ dest_square = None
    /\ idx = 0
    /\ checked = None
    /\ valid_move = FALSE

(***************************************************************************)
(* Characters                                                              *)
(***************************************************************************)
Lower == <<"a","b","c","d","e","f","g","h","i","j","k","l","m",
           "n","o","p","q","r","s","t","u","v","w","x","y","z">>
Upper == <<"A","B","C","D","E","F","G","H","I","J","K","L","M",
           "N","O","P","Q","R","S","T","U","V","W","X","Y","Z">>
Digits == <<"0","1","2","3","4","5","6","7","8","9">>

IndexIn(seq, c) == CHOOSE i \in 1..Len(seq) : seq[i] = c
InSeq(seq, c) == \E i \in 1..Len(seq) : seq[i] = c

\* str.isdigit / str.isupper / str.islower on one character
IsDigit(c) == InSeq(Digits, c)
IsUpper(c) == InSeq(Upper, c)
IsLower(c) == InSeq(Lower, c)
\* int(c) of a digit character
IntOf(c) == IndexIn(Digits, c) - 1
\* ord(c)
Ord(c) == IF IsLower(c) THEN 96 + IndexIn(Lower, c)
          ELSE IF IsUpper(c) THEN 64 + IndexIn(Upper, c)
          ELSE IF IsDigit(c) THEN 47 + IndexIn(Digits, c)
          ELSE IF c = "-" THEN 45
          ELSE IF c = "/" THEN 47
          ELSE IF c = " " THEN 32
          ELSE 9
\* str.isspace on one character
IsSpace(c) == c \in {" ", "\t"}

\* files = 'abcdefgh'
files == <<"a","b","c","d","e","f","g","h">>

(***************************************************************************)
(* str.split() and str.split('/')                                          *)
(***************************************************************************)
Indices(s) == [i \in 1..Len(s) |-> i]

\* s.split(): runs of whitespace separate the fields, whitespace at the ends
\* yields no field.  A field runs from a character that is no whitespace and
\* follows whitespace (or starts s) to one that precedes whitespace (or ends s).
Split(s) ==
    LET starts == SelectSeq(Indices(s),
                    LAMBDA i : ~IsSpace(s[i]) /\ (i = 1 \/ IsSpace(s[i - 1])))
        ends == SelectSeq(Indices(s),
                    LAMBDA i : ~IsSpace(s[i]) /\ (i = Len(s) \/ IsSpace(s[i + 1])))
    IN  [k \in 1..Len(starts) |-> SubSeq(s, starts[k], ends[k])]

\* s.split(sep): every separator cuts, empty pieces are kept
SplitOn(s, sep) ==
    LET cuts == SelectSeq(Indices(s), LAMBDA i : s[i] = sep)
    IN  [k \in 1..(Len(cuts) + 1) |->
            SubSeq(s, IF k = 1 THEN 1 ELSE cuts[k - 1] + 1,
                      IF k = Len(cuts) + 1 THEN Len(s) ELSE cuts[k] - 1)]

(***************************************************************************)
(* The placement parser, the same loop in all three scripts                *)
(***************************************************************************)
Dots(n) == [k \in 1..n |-> "."]

RECURSIVE ParseRank(_, _, _)
ParseRank(rank, i, row) ==
    IF i > Len(rank) THEN row
    ELSE IF IsDigit(rank[i])
         THEN ParseRank(rank, i + 1, row \o Dots(IntOf(rank[i])))
         ELSE ParseRank(rank, i + 1, Append(row, rank[i]))

ParseBoard(board_part) ==
    LET ranks == SplitOn(board_part, "/")
    IN  [k \in 1..Len(ranks) |-> ParseRank(ranks[k], 1, <<>>)]

\* board[r][f] with Python's indices r, f >= 0
HasRow(board, r) == r + 1 \in 1..Len(board)
HasCell(board, r, f) == HasRow(board, r) /\ f + 1 \in 1..Len(board[r + 1])
Cell(board, r, f) == board[r + 1][f + 1]

Is8x8(board) == Len(board) = 8 /\ \A r \in 1..8 : Len(board[r]) = 8

(***************************************************************************)
(* validate_en_passant (src/validate_en_passant.py)                        *)
(***************************************************************************)
Return(v) == [exc |-> "none", value |-> v]
Raise(e) == [exc |-> e, value |-> <<>>]

\* the fields joined by tabs
Reconstruct_Tabs(board_part, active_color, castling, en_passant, halfmove, fullmove) ==
    board_part \o <<"\t">> \o active_color \o <<"\t">> \o castling \o <<"\t">>
        \o en_passant \o <<"\t">> \o halfmove \o <<"\t">> \o fullmove

\* the castling field written as "-"
Reconstruct_NoCastling(board_part, active_color, castling, en_passant, halfmove, fullmove) ==
    board_part \o <<" ">> \o active_color \o <<" ">> \o <<"-">> \o <<" ">>
        \o en_passant \o <<" ">> \o halfmove \o <<" ">> \o fullmove

\* f"{board_part} {active_color} {castling} {en_passant} {halfmove} {fullmove}"
Reconstruct(board_part, active_color, castling, en_passant, halfmove, fullmove) ==
    board_part \o <<" ">> \o active_color \o <<" ">> \o castling \o <<" ">>
        \o en_passant \o <<" ">> \o halfmove \o <<" ">> \o fullmove

\* the colours exchanged
LastMoved_Swapped(active_color) == IF active_color = <<"w">> THEN "white" ELSE "black"

\* last_moved = 'black' if active_color == 'w' else 'white'
LastMoved(active_color) == IF active_color = <<"w">> THEN "black" ELSE "white"

\* The body shared by the two branches (lines 54-59 and 64-69): the pawn that
\* just moved stands on board[row][file_idx] and a pawn of the other side
\* stands beside it.  "True" / "False" is the value `valid` is left with,
\* "IndexError" a raise.
PyBool(b) == IF b THEN "True" ELSE "False"

\* without the guard file_idx > 0: board[row][-1] is the last cell of the row
CaptureCheck_NoLeftGuard(board, row, file_idx, moved, capturer) ==
    IF ~(0 <= file_idx /\ file_idx < 8) THEN "False"
    ELSE IF ~HasCell(board, row, file_idx) THEN "IndexError"
    ELSE IF Cell(board, row, file_idx) # moved THEN "False"
    ELSE LET left == Cell(board, row, IF file_idx > 0 THEN file_idx - 1
                                      ELSE Len(board[row + 1]) - 1) = capturer
         IN  IF file_idx < 7
             THEN IF ~HasCell(board, row, file_idx + 1) THEN "IndexError"
                  ELSE PyBool(left \/ Cell(board, row, file_idx + 1) = capturer)
             ELSE PyBool(left)

\* the capturer looked for on the file of the pawn, one rank ahead of it
CaptureCheck_Ahead(board, row, file_idx, moved, capturer) ==
    IF ~(0 <= file_idx /\ file_idx < 8) THEN "False"
    ELSE IF ~HasCell(board, row, file_idx) THEN "IndexError"
    ELSE IF Cell(board, row, file_idx) # moved THEN "False"
    ELSE LET ahead == IF moved = "P" THEN row - 1 ELSE row + 1
         IN  PyBool(Cell(board, ahead, file_idx) = capturer)

CaptureCheck(board, row, file_idx, moved, capturer) ==
    IF ~(0 <= file_idx /\ file_idx < 8) THEN "False"
    ELSE IF ~HasCell(board, row, file_idx) THEN "IndexError"
    ELSE IF Cell(board, row, file_idx) # moved THEN "False"
    ELSE LET left == file_idx > 0 /\ Cell(board, row, file_idx - 1) = capturer
         IN  IF file_idx < 7
             THEN IF ~HasCell(board, row, file_idx + 1) THEN "IndexError"
                  ELSE PyBool(left \/ Cell(board, row, file_idx + 1) = capturer)
             ELSE PyBool(left)

\* valid = False; if last_moved == 'white' and rank == 3: ... elif ...
EpValid(board, last_moved, rank, file_idx) ==
    IF last_moved = "white" /\ rank = 3
    THEN CaptureCheck(board, 4, file_idx, "P", "p")
    ELSE IF last_moved = "black" /\ rank = 6
    THEN CaptureCheck(board, 3, file_idx, "p", "P")
    ELSE "False"

\* only an input of fewer than six fields returned as it is
validate_en_passant_SixOrMore(f, lm) ==
    LET parts == Split(f)
    IN  IF Len(parts) < 6 THEN Return(f)
        ELSE
        LET board_part == parts[1]
            active_color == parts[2]
            castling == parts[3]
            en_passant == parts[4]
            halfmove == parts[5]
            fullmove == parts[6]
            board == ParseBoard(board_part)
        IN  IF en_passant = <<"-">>
            THEN Return(Reconstruct(board_part, active_color, castling,
                                    en_passant, halfmove, fullmove))
            ELSE IF Len(en_passant) < 2 THEN Raise("IndexError")
            ELSE IF ~IsDigit(en_passant[2]) THEN Raise("ValueError")
            ELSE
            LET file_idx == Ord(en_passant[1]) - Ord("a")
                rank == IntOf(en_passant[2])
                valid == EpValid(board, LastMoved(active_color), rank, file_idx)
            IN  IF valid = "IndexError" THEN Raise("IndexError")
                ELSE Return(Reconstruct(board_part, active_color, castling,
                                        IF valid = "True" THEN en_passant ELSE <<"-">>,
                                        halfmove, fullmove))

validate_en_passant(f, lm) ==
    LET parts == Split(f)
    IN  IF Len(parts) # 6 THEN Return(f)
        ELSE
        LET board_part == parts[1]
            active_color == parts[2]
            castling == parts[3]
            en_passant == parts[4]
            halfmove == parts[5]
            fullmove == parts[6]
            board == ParseBoard(board_part)
        IN  IF en_passant = <<"-">>
            THEN Return(Reconstruct(board_part, active_color, castling,
                                    en_passant, halfmove, fullmove))
            ELSE IF Len(en_passant) < 2 THEN Raise("IndexError")
            ELSE IF ~IsDigit(en_passant[2]) THEN Raise("ValueError")
            ELSE
            LET file_idx == Ord(en_passant[1]) - Ord("a")
                rank == IntOf(en_passant[2])
                valid == EpValid(board, LastMoved(active_color), rank, file_idx)
            IN  IF valid = "IndexError" THEN Raise("IndexError")
                ELSE Return(Reconstruct(board_part, active_color, castling,
                                        IF valid = "True" THEN en_passant ELSE <<"-">>,
                                        halfmove, fullmove))

\* test_validation: parts = corrected.split(); parts[3] if len(parts) > 3 else "?"
ActualEp(c) == LET parts == Split(c) IN IF Len(parts) > 3 THEN parts[4] ELSE <<"?">>

(***************************************************************************)
(* parse_fen_to_board, find_pieces, can_bishop_move_to                     *)
(* (src/test/test_bishop_moves.py)                                         *)
(***************************************************************************)
\* board_part = fen.split()[0]; the grid of board_part
parse_fen_to_board(f) ==
    LET parts == Split(f)
    IN  IF Len(parts) < 1 THEN Raise("IndexError") ELSE Return(ParseBoard(parts[1]))

\* f"{file}{8 - rank_idx}"
SquareName(r, f) == <<files[f + 1], Digits[(8 - r) + 1]>>

\* range(8) x range(8) in the order of the two loops: cell k is
\* board[k \div 8][k % 8]
Cells64 == [k \in 1..64 |-> k - 1]

\* the scan stopped at the first square found
find_pieces_FirstOnly(b, piece) ==
    IF \E k \in 0..63 : ~HasCell(b, k \div 8, k % 8) THEN Raise("IndexError")
    ELSE LET at == SelectSeq(Cells64, LAMBDA k : Cell(b, k \div 8, k % 8) = piece)
         IN  Return([n \in 1..(IF Len(at) > 0 THEN 1 ELSE 0) |->
                        SquareName(at[n] \div 8, at[n] % 8)])

\* the squares holding `piece`, rank 8 first, files a to h; a grid that lacks
\* one of the 64 cells raises
find_pieces(b, piece) ==
    IF \E k \in 0..63 : ~HasCell(b, k \div 8, k % 8) THEN Raise("IndexError")
    ELSE LET at == SelectSeq(Cells64, LAMBDA k : Cell(b, k \div 8, k % 8) = piece)
         IN  Return([n \in 1..Len(at) |-> SquareName(at[n] \div 8, at[n] % 8)])

Abs(n) == IF n < 0 THEN -n ELSE n

Answer(can_move, reason, at) ==
    [exc |-> "none", can_move |-> can_move, reason |-> reason, at |-> at]
Failure(e) == [exc |-> e, can_move |-> FALSE, reason |-> "", at |-> None]

\* seq[i] with Python's index i: a negative index counts from the end
PyHas(seq, i) == -Len(seq) <= i /\ i < Len(seq)
PyAt(seq, i) == IF i >= 0 THEN seq[i + 1] ELSE seq[Len(seq) + i + 1]

\* board[r][f], or "IndexError"
PyCell(b, r, f) ==
    IF ~PyHas(b, r) THEN "IndexError"
    ELSE IF ~PyHas(PyAt(b, r), f) THEN "IndexError"
    ELSE PyAt(PyAt(b, r), f)

\* while current_file != to_file: the first occupied square of the path, None
\* when there is none, <<"IndexError">> when the grid has no such cell
RECURSIVE PathBlockedAt(_, _, _, _, _, _)
PathBlockedAt(b, current_file, current_row, to_file, file_step, row_step) ==
    IF current_file = to_file THEN None
    ELSE IF PyCell(b, current_row, current_file) = "IndexError" THEN <<"IndexError">>
    ELSE IF PyCell(b, current_row, current_file) # "."
         THEN SquareName(current_row, current_file)
         ELSE PathBlockedAt(b, current_file + file_step, current_row + row_step,
                            to_file, file_step, row_step)

\* every occupied destination refused, whatever the colour of the piece
OwnPiece_AnyPiece(dest_piece, c) == dest_piece # "."

\* the destination test, lines 75-79
OwnPiece(dest_piece, c) ==
    /\ dest_piece # "."
    /\ \/ c = "white" /\ IsUpper(dest_piece)
       \/ c # "white" /\ c = "black" /\ IsLower(dest_piece)

\* row_step = rank_step: the rows taken to run like the ranks
can_bishop_move_to_RowsNotInverted(b, from_square, to_square, c) ==
    IF ~InSeq(files, from_square[1]) \/ ~IsDigit(from_square[2])
       \/ ~InSeq(files, to_square[1]) \/ ~IsDigit(to_square[2])
    THEN Failure("ValueError")
    ELSE
    LET from_file == IndexIn(files, from_square[1]) - 1
        from_rank == IntOf(from_square[2])
        to_file == IndexIn(files, to_square[1]) - 1
        to_rank == IntOf(to_square[2])
        from_row == 8 - from_rank
        to_row == 8 - to_rank
        file_diff == Abs(to_file - from_file)
        rank_diff == Abs(to_rank - from_rank)
        file_step == IF to_file > from_file THEN 1 ELSE -1
        rank_step == IF to_rank > from_rank THEN 1 ELSE -1
        row_step == rank_step
        blocked == PathBlockedAt(b, from_file + file_step, from_row + row_step,
                                 to_file, file_step, row_step)
        dest_piece == PyCell(b, to_row, to_file)
    IN  IF file_diff # rank_diff \/ file_diff = 0
        THEN Answer(FALSE, "Not a diagonal move", None)
        ELSE IF blocked = <<"IndexError">> THEN Failure("IndexError")
        ELSE IF blocked # None THEN Answer(FALSE, "Path blocked", blocked)
        ELSE IF dest_piece = "IndexError" THEN Failure("IndexError")
        ELSE IF OwnPiece(dest_piece, c)
        THEN Answer(FALSE, "Destination occupied by own piece", None)
        ELSE Answer(TRUE, "Legal move", None)

\* only a step to a neighbouring square taken for a diagonal move
can_bishop_move_to_OneStep(b, from_square, to_square, c) ==
    IF ~InSeq(files, from_square[1]) \/ ~IsDigit(from_square[2])
       \/ ~InSeq(files, to_square[1]) \/ ~IsDigit(to_square[2])
    THEN Failure("ValueError")
    ELSE
    LET from_file == IndexIn(files, from_square[1]) - 1
        from_rank == IntOf(from_square[2])
        to_file == IndexIn(files, to_square[1]) - 1
        to_rank == IntOf(to_square[2])
        from_row == 8 - from_rank
        to_row == 8 - to_rank
        file_diff == Abs(to_file - from_file)
        rank_diff == Abs(to_rank - from_rank)
        file_step == IF to_file > from_file THEN 1 ELSE -1
        rank_step == IF to_rank > from_rank THEN 1 ELSE -1
        row_step == -rank_step
        blocked == PathBlockedAt(b, from_file + file_step, from_row + row_step,
                                 to_file, file_step, row_step)
        dest_piece == PyCell(b, to_row, to_file)
    IN  IF file_diff # 1 \/ rank_diff # 1
        THEN Answer(FALSE, "Not a diagonal move", None)
        ELSE IF blocked = <<"IndexError">> THEN Failure("IndexError")
        ELSE IF blocked # None THEN Answer(FALSE, "Path blocked", blocked)
        ELSE IF dest_piece = "IndexError" THEN Failure("IndexError")
        ELSE IF OwnPiece(dest_piece, c)
        THEN Answer(FALSE, "Destination occupied by own piece", None)
        ELSE Answer(TRUE, "Legal move", None)

can_bishop_move_to(b, from_square, to_square, c) ==
    IF ~InSeq(files, from_square[1]) \/ ~IsDigit(from_square[2])
       \/ ~InSeq(files, to_square[1]) \/ ~IsDigit(to_square[2])
    THEN Failure("ValueError")
    ELSE
    LET from_file == IndexIn(files, from_square[1]) - 1
        from_rank == IntOf(from_square[2])
        to_file == IndexIn(files, to_square[1]) - 1
        to_rank == IntOf(to_square[2])
        from_row == 8 - from_rank
        to_row == 8 - to_rank
        file_diff == Abs(to_file - from_file)
        rank_diff == Abs(to_rank - from_rank)
        file_step == IF to_file > from_file THEN 1 ELSE -1
        rank_step == IF to_rank > from_rank THEN 1 ELSE -1
        row_step == -rank_step
        blocked == PathBlockedAt(b, from_file + file_step, from_row + row_step,
                                 to_file, file_step, row_step)
        dest_piece == PyCell(b, to_row, to_file)
    IN  IF file_diff # rank_diff \/ file_diff = 0
        THEN Answer(FALSE, "Not a diagonal move", None)
        ELSE IF blocked = <<"IndexError">> THEN Failure("IndexError")
        ELSE IF blocked # None THEN Answer(FALSE, "Path blocked", blocked)
        ELSE IF dest_piece = "IndexError" THEN Failure("IndexError")
        ELSE IF OwnPiece(dest_piece, c)
        THEN Answer(FALSE, "Destination occupied by own piece", None)
        ELSE Answer(TRUE, "Legal move", None)

(***************************************************************************)
(* Inputs.  The state strings are encoded from Positions: a position of    *)
(* the tests with pawns placed on a window of squares.                     *)
(***************************************************************************)
\* "rnbqkbnr/pppp1ppp/8/4p3/8/P7/1PPPPPPP/RNBQKBNR", the position after 1.a3 e5
ProblemPlacement ==
    <<"r","n","b","q","k","b","n","r","/","p","p","p","p","1","p","p","p","/","8","/","4","p","3","/","8","/","P","7","/","1","P","P","P","P","P","P","P","/","R","N","B","Q","K","B","N","R">>

ProblemBoard == ParseBoard(ProblemPlacement)

\* encode (spec 4.1): runs of empty squares become their count
RECURSIVE EncodeRow(_, _, _, _)
EncodeRow(row, i, run, acc) ==
    LET flushed == IF run > 0 THEN Append(acc, Digits[run + 1]) ELSE acc
    IN  IF i > Len(row) THEN flushed
        ELSE IF row[i] = "." THEN EncodeRow(row, i + 1, run + 1, acc)
        ELSE EncodeRow(row, i + 1, 0, Append(flushed, row[i]))

RECURSIVE EncodeRows(_, _)
EncodeRows(board, k) ==
    IF k > Len(board) THEN <<>>
    ELSE EncodeRow(board[k], 1, 0, <<>>)
         \o (IF k < Len(board) THEN <<"/">> ELSE <<>>) \o EncodeRows(board, k + 1)

EncodePlacement(board) == EncodeRows(board, 1)

\* a board with the cells of pl (<<row, file>> |-> piece) overwritten
Overlay(board, pl) ==
    [r \in 1..8 |-> [f \in 1..8 |->
        IF <<r - 1, f - 1>> \in DOMAIN pl THEN pl[<<r - 1, f - 1>>] ELSE board[r][f]]]

\* Files of the window and squares the pawns are placed on: ranks 5 and 4
\* (board rows 3 and 4), the rows validate_en_passant reads.
MaxPawns == 2
PawnFiles == {0, 1, 3, 4, 5, 7}
PawnCells == ({3, 4} \X {0, 1, 3, 4, 5}) \cup {<<4, 7>>}

Placements ==
    UNION { [S -> {"P", "p"}] : S \in {T \in SUBSET PawnCells : Cardinality(T) <= MaxPawns} }

\* The en-passant fields supplied with a state string
EpFiles == {"a", "e"}
EpRanks == {"3", "6"}
EpFields ==
    {<<"-">>, <<"e">>, <<"e", "4">>, <<"h", "3">>, <<"i", "3">>}
        \cup {<<f, r>> : f \in EpFiles, r \in EpRanks}

\* The pawn advances that lead to board b: a pawn of the mover on `to`, the
\* squares behind it empty, one rank (single) or two ranks from the home rank
\* (double).  <<mover, from row, to row, file>>
Advances(b) ==
    { m \in {"white", "black"} \X (0..7) \X {3, 4} \X PawnFiles :
        LET mover == m[1]  from == m[2]  to == m[3]  f == m[4]
            dir == IF mover = "white" THEN -1 ELSE 1
            home == IF mover = "white" THEN 6 ELSE 1
        IN  /\ Cell(b, to, f) = (IF mover = "white" THEN "P" ELSE "p")
            /\ \/ from + dir = to /\ (from = home \/ Cell(b, from, f) = ".")
               \/ from + 2 * dir = to /\ from = home /\ Cell(b, from + dir, f) = "." }

\* the board after the advance: the origin square is vacated
AfterAdvance(b, m) == Overlay(b, [c \in {<<m[2], m[4]>>} |-> "."])

\* encode (spec 4.1) of a Position with all castling rights and counters 0 2
Encode(pos) ==
    Reconstruct(EncodePlacement(pos.board), <<pos.stm>>, <<"K","Q","k","q">>,
                pos.ep, <<"0">>, <<"2">>)

InitEP ==
    \E pl \in Placements :
      LET b == Overlay(ProblemBoard, pl)
      IN  /\ \/ /\ last_move = None
                /\ \E stm \in {"w", "b"}, ep \in EpFields :
                      position = [board |-> b, stm |-> stm, ep |-> ep]
             \/ \E m \in Advances(b) :
                  /\ last_move = <<SquareName(m[2], m[4]), SquareName(m[3], m[4])>>
                  /\ \E ep \in EpFields :
                        position = [board |-> AfterAdvance(b, m),
                                    stm |-> IF m[1] = "white" THEN "b" ELSE "w",
                                    ep |-> ep]
          /\ fen = Encode(position)
          /\ pc = "input"
          /\ corrected = NoResult
          /\ actual_ep = None
          /\ grid = None
          /\ side = ""
          /\ valid_moves = None
          /\ printed = None
          /\ BishopIdle

\* test_validation's loop body: corrected = validate_en_passant(test['fen']);
\* parts = corrected.split(); actual_ep = parts[3] if len(parts) > 3 else "?"
ValidateEnPassant ==
    /\ pc = "input"
    /\ corrected' = validate_en_passant(fen, last_move)
    /\ actual_ep' = IF corrected'.exc = "none" THEN ActualEp(corrected'.value) ELSE None
    /\ pc' = "done"
    /\ UNCHANGED <<position, fen, last_move, grid, side, pawn_vars, bishop_vars>>

NextEP == ValidateEnPassant

SpecEP == InitEP /\ [][NextEP]_vars

(***************************************************************************)
(* parse_and_display_board, analyze_pawn_moves                             *)
(* (src/test/analyze_position.py)                                          *)
(***************************************************************************)
\* the en-passant target recorded on the grid
parse_and_display_board_MarksTarget(f) ==
    LET parts == Split(f)
        e == parts[4]
        marked == Len(e) = 2 /\ InSeq(files, e[1]) /\ e[2] \in {"1","2","3","4","5","6","7","8"}
        parsed == ParseBoard(parts[1])
    IN  IF Len(parts) < 6 THEN Raise("IndexError")
        ELSE IF ~marked THEN Return(parsed)
        ELSE Return([r \in 1..Len(parsed) |-> [c \in 1..Len(parsed[r]) |->
                        IF r = 9 - IntOf(e[2]) /\ c = IndexIn(files, e[1])
                        THEN "*" ELSE parsed[r][c]]])

\* parts = fen.split(); parts[0] ... parts[5]; the grid of parts[0] is returned
parse_and_display_board(f) ==
    LET parts == Split(f)
    IN  IF Len(parts) < 6 THEN Raise("IndexError")
        ELSE Return(ParseBoard(parts[1]))

Line(from, to, double) == [from |-> from, move |-> to, double |-> double]

\* the double advance tested beside the single advance, not inside it
PawnMovesAt_NotNested(b, c, rank_idx, file_idx) ==
    LET direction == IF c = "white" THEN -1 ELSE 1
        start_rank == IF c = "white" THEN 6 ELSE 1
        from == SquareName(rank_idx, file_idx)
        new_rank_idx == rank_idx + direction
        two_forward == rank_idx + 2 * direction
        one == IF 0 <= new_rank_idx /\ new_rank_idx < 8
                  /\ Cell(b, new_rank_idx, file_idx) = "."
               THEN <<Line(from, SquareName(new_rank_idx, file_idx), FALSE)>>
               ELSE <<>>
        two == IF rank_idx = start_rank /\ Cell(b, two_forward, file_idx) = "."
               THEN <<Line(from, SquareName(two_forward, file_idx), TRUE)>>
               ELSE <<>>
    IN  [exc |-> "none", lines |-> one \o two]

\* the body of the loops for a pawn on board[rank_idx][file_idx]: the lines
\* printed, one for each move appended to valid_moves
PawnMovesAt(b, c, rank_idx, file_idx) ==
    LET direction == IF c = "white" THEN -1 ELSE 1
        start_rank == IF c = "white" THEN 6 ELSE 1
        from == SquareName(rank_idx, file_idx)
        new_rank_idx == rank_idx + direction
        two_forward == rank_idx + 2 * direction
    IN  IF ~(0 <= new_rank_idx /\ new_rank_idx < 8)
        THEN [exc |-> "none", lines |-> <<>>]
        ELSE IF ~HasCell(b, new_rank_idx, file_idx)
        THEN [exc |-> "IndexError", lines |-> <<>>]
        ELSE IF Cell(b, new_rank_idx, file_idx) # "."
        THEN [exc |-> "none", lines |-> <<>>]
        ELSE IF rank_idx # start_rank
        THEN [exc |-> "none",
              lines |-> <<Line(from, SquareName(new_rank_idx, file_idx), FALSE)>>]
        ELSE IF ~HasCell(b, two_forward, file_idx)
        THEN [exc |-> "IndexError", lines |-> <<>>]
        ELSE IF Cell(b, two_forward, file_idx) # "."
        THEN [exc |-> "none",
              lines |-> <<Line(from, SquareName(new_rank_idx, file_idx), FALSE)>>]
        ELSE [exc |-> "none",
              lines |-> <<Line(from, SquareName(new_rank_idx, file_idx), FALSE),
                          Line(from, SquareName(two_forward, file_idx), TRUE)>>]

\* for rank_idx in range(8): for file_idx in range(8): the lines of the
\* pawns from cell k on, in the order of the loops
RECURSIVE ScanPawns(_, _, _)
ScanPawns(b, c, pawns) ==
    IF pawns = <<>> THEN [exc |-> "none", lines |-> <<>>]
    ELSE LET at == PawnMovesAt(b, c, Head(pawns) \div 8, Head(pawns) % 8)
             rest == ScanPawns(b, c, Tail(pawns))
         IN  IF at.exc # "none" THEN at
             ELSE [exc |-> rest.exc, lines |-> at.lines \o rest.lines]

\* a grid that lacks one of the 64 cells raises
analyze_pawn_moves(b, c) ==
    LET pawn == IF c = "white" THEN "P" ELSE "p"
    IN  IF \E k \in 0..63 : ~HasCell(b, k \div 8, k % 8)
        THEN [exc |-> "IndexError", lines |-> <<>>]
        ELSE ScanPawns(b, c, SelectSeq(Cells64, LAMBDA k : Cell(b, k \div 8, k % 8) = pawn))

Moves(lines) == [k \in 1..Len(lines) |-> lines[k].move]

(***************************************************************************)
(* The run of analyze_position.py's main on a state string                 *)
(***************************************************************************)
\* Pieces placed on the b-file of the position after 1.a3 e5
MaxPlaced == 2
PlacedCells == (0..7) \X {1}
PlacedPieces == {"P", "p", "N", "."}

PawnPlacements ==
    UNION { [S -> PlacedPieces] :
            S \in {T \in SUBSET PlacedCells : Cardinality(T) <= MaxPlaced} }

InitPawn ==
    /\ \E pl \in PawnPlacements, ep \in {<<"e", "6">>, <<"-">>} :
          position = [board |-> Overlay(ProblemBoard, pl), stm |-> "w", ep |-> ep]
    /\ fen = Encode(position)
    /\ side \in {"white", "black"}
    /\ pc = "input"
    /\ last_move = None
    /\ corrected = NoResult
    /\ actual_ep = None
    /\ grid = None
    /\ valid_moves = None
    /\ printed = None
    /\ BishopIdle

\* board = parse_and_display_board(test_fen)
ParseAndDisplayBoard ==
    /\ pc = "input"
    /\ LET r == parse_and_display_board(fen)
       IN  /\ grid' = r.value
           /\ pc' = IF r.exc = "none" THEN "parsed" ELSE "raised"
    /\ UNCHANGED <<position, fen, last_move, corrected, actual_ep, side,
                   pawn_vars, bishop_vars>>

\* white_moves = analyze_pawn_moves(board, 'white')
AnalyzePawnMoves ==
    /\ pc = "parsed"
    /\ LET r == analyze_pawn_moves(grid, side)
       IN  /\ printed' = r.lines
           /\ valid_moves' = IF r.exc = "none" THEN Moves(r.lines) ELSE None
           /\ pc' = IF r.exc = "none" THEN "done" ELSE "raised"
    /\ UNCHANGED <<position, fen, last_move, corrected, actual_ep, grid, side, bishop_vars>>

NextPawn == ParseAndDisplayBoard \/ AnalyzePawnMoves

SpecPawn == InitPawn /\ [][NextPawn]_vars

(***************************************************************************)
(* One test of test_bishop_scenarios on a state string and a move          *)
(***************************************************************************)
\* "rnbqkbnr/pppppppp/8/8/8/8/PPPPPPPP/RNBQKBNR", the starting position
StartPlacement ==
    <<"r","n","b","q","k","b","n","r","/","p","p","p","p","p","p","p","p","/","8","/","8","/","8","/","8","/","P","P","P","P","P","P","P","P","/","R","N","B","Q","K","B","N","R">>
\* "rnbqkbnr/pppp1ppp/8/4p3/2B1P3/5N2/PPPP1PPP/RNBQK2R", both bishops developed
DevelopedPlacement ==
    <<"r","n","b","q","k","b","n","r","/","p","p","p","p","1","p","p","p","/","8","/","4","p","3","/","2","B","1","P","3","/","5","N","2","/","P","P","P","P","1","P","P","P","/","R","N","B","Q","K","2","R">>
\* "rnbqkbnr/pppp1ppp/8/4p3/4P3/8/PPPP1PPP/RNBQKBNR", after 1.e4 e5
OpenPlacement ==
    <<"r","n","b","q","k","b","n","r","/","p","p","p","p","1","p","p","p","/","8","/","4","p","3","/","4","P","3","/","8","/","P","P","P","P","1","P","P","P","/","R","N","B","Q","K","B","N","R">>

StartBoard == ParseBoard(StartPlacement)
DevelopedBoard == ParseBoard(DevelopedPlacement)
OpenBoard == ParseBoard(OpenPlacement)

\* Pieces placed on d1, e2, d3, c4 and e7 of these positions
MaxBlockers == 2
BlockerCells == {<<7, 3>>, <<6, 4>>, <<5, 3>>, <<4, 2>>, <<1, 4>>}
BlockerPieces == {"B", "b", "P", "p"}

BishopPlacements ==
    UNION { [S -> BlockerPieces] :
            S \in {T \in SUBSET BlockerCells : Cardinality(T) <= MaxBlockers} }

BishopMoves == { <<"B", "e", "2">>, <<"B", "d", "3">>, <<"B", "c", "4">>, <<"B", "e", "7">> }

InitBishop ==
    /\ \E base \in {StartBoard, DevelopedBoard, OpenBoard}, pl \in BishopPlacements,
          stm \in {"w", "b"} :
          position = [board |-> Overlay(base, pl), stm |-> stm, ep |-> <<"-">>]
    /\ fen = Encode(position)
    /\ move \in BishopMoves
    /\ pc = "input"
    /\ last_move = None
    /\ corrected = NoResult
    /\ actual_ep = None
    /\ grid = None
    /\ side = ""
    /\ valid_moves = None
    /\ printed = None
    /\ bishops = None
    /\ dest_square = None
    /\ idx = 0
    /\ checked = None
    /\ valid_move = FALSE

\* lines 141-151 and 169: the board, the active colour, its bishops, the
\* destination square, valid_move = False
FindBishops ==
    /\ pc = "input"
    /\ LET parsed == parse_fen_to_board(fen)
           parts == Split(fen)
           active_color == IF parts[2] = <<"w">> THEN "white" ELSE "black"
           bishop_char == IF active_color = "white" THEN "B" ELSE "b"
           found == find_pieces(parsed.value, bishop_char)
       IN  IF parsed.exc # "none" \/ Len(parts) < 2 \/ found.exc # "none"
           THEN pc' = "raised" /\ UNCHANGED <<grid, side, bishops, dest_square, idx>>
           ELSE /\ grid' = parsed.value
                /\ side' = active_color
                /\ bishops' = found.value
                /\ dest_square' = SubSeq(move, Len(move) - 1, Len(move))
                /\ idx' = 1
                /\ pc' = "loop"
    /\ valid_move' = FALSE
    /\ checked' = <<>>
    /\ UNCHANGED <<position, fen, last_move, corrected, actual_ep, pawn_vars, move>>

\* one turn of `for bishop_pos in bishops`: can_move is tried, a bishop that
\* can move sets valid_move and breaks
TryBishop ==
    /\ pc = "loop"
    /\ idx <= Len(bishops)
    /\ LET r == can_bishop_move_to(grid, bishops[idx], dest_square, side)
       IN  /\ checked' = Append(checked, [bishop_pos |-> bishops[idx], result |-> r])
           /\ IF r.exc # "none" THEN pc' = "raised" /\ UNCHANGED <<valid_move, idx>>
              ELSE IF r.can_move
              THEN valid_move' = TRUE /\ pc' = "done" /\ UNCHANGED idx
              ELSE idx' = idx + 1 /\ UNCHANGED <<valid_move, pc>>
    /\ UNCHANGED <<position, fen, last_move, corrected, actual_ep, grid, side,
                   pawn_vars, move, bishops, dest_square>>

\* the loop ends with no bishop left
NoBishopLeft ==
    /\ pc = "loop"
    /\ idx > Len(bishops)
    /\ pc' = "done"
    /\ UNCHANGED <<position, fen, last_move, corrected, actual_ep, grid, side,
                   pawn_vars, bishop_vars>>

NextBishop == FindBishops \/ TryBishop \/ NoBishopLeft

SpecBishop == InitBishop /\ [][NextBishop]_vars

(***************************************************************************)
(* The scripts run on raw state strings: placements that are not 8x8,      *)
(* fields that are missing or added, whitespace other than single spaces.  *)
(***************************************************************************)
\* "rnbqkbnr/pppp1ppp/8/3Pp3/8/8/PPP1PPPP/RNBQKBNR": white pawn d5, black pawn e5
CapturePlacement ==
    <<"r","n","b","q","k","b","n","r","/","p","p","p","p","1","p","p","p","/","8","/","3","P","p","3","/","8","/","8","/","P","P","P","1","P","P","P","P","/","R","N","B","Q","K","B","N","R">>

\* s with its i-th character replaced by c
Replaced(s, i, c) == [k \in 1..Len(s) |-> IF k = i THEN c ELSE s[k]]

\* the placement without its last rank, and with a ninth rank
WithoutLastRank(s) ==
    LET cuts == SelectSeq(Indices(s), LAMBDA i : s[i] = "/")
    IN  SubSeq(s, 1, cuts[Len(cuts)] - 1)
WithNinthRank(s) == s \o <<"/", "8">>

\* The characters of the second rank, "pppp1ppp", that are replaced and
\* what replaces them: "1" by "0", "2", "9", "x" or a pawn by them.
EditAt == {13, 14}
EditChars == {"0", "2", "9", "x", "p"}

RawPlacements ==
    {ProblemPlacement, CapturePlacement,
     WithoutLastRank(ProblemPlacement), WithNinthRank(ProblemPlacement)}
        \cup { Replaced(ProblemPlacement, i, c) : i \in EditAt, c \in EditChars }

\* The longest run of whitespace between two fields, and the most fields
\* added after the sixth
MaxGap == 2
MaxExtra == 1

Blanks(c, n) == [k \in 1..n |-> c]

\* The whitespace of a state string: single spaces between the fields but at
\* one place, `at`, where `width` characters `char` stand: before the first
\* field (at = 0), after the k-th field (at = k)
Gaps ==
    [at : 0..7, width : 1..MaxGap, char : {" ", "\t"}]

RECURSIVE Joined(_, _, _)
Joined(fields, k, gap) ==
    IF k > Len(fields) THEN <<>>
    ELSE fields[k]
         \o (IF gap.at = k THEN Blanks(gap.char, gap.width)
             ELSE IF k < Len(fields) THEN <<" ">> ELSE <<>>)
         \o Joined(fields, k + 1, gap)

\* the state string of the fields with the whitespace of gap
Raw(fields, gap) ==
    (IF gap.at = 0 THEN Blanks(gap.char, gap.width) ELSE <<>>) \o Joined(fields, 1, gap)

RawEpFields == {<<"-">>, <<"e", "6">>, <<"e", "3">>, <<"e">>}

\* five fields (no fullmove number), six, or fields added
RawFields(placement, stm, ep) ==
    LET six == <<placement, <<stm>>, <<"K","Q","k","q">>, ep, <<"0">>, <<"2">>>>
    IN  {SubSeq(six, 1, 5)}
            \cup { six \o [k \in 1..n |-> <<"x">>] : n \in 0..MaxExtra }

InitRaw ==
    /\ \E placement \in RawPlacements, stm \in {"w", "b"}, ep \in RawEpFields :
          \E fields \in RawFields(placement, stm, ep) :
             \E gap \in {g \in Gaps : g.at <= Len(fields)} :
                /\ position = [board |-> ParseBoard(placement), stm |-> stm, ep |-> ep,
                               fields |-> fields]
                /\ fen = Raw(fields, gap)
    /\ side \in {"white"}
    /\ pc = "input"
    /\ last_move = None
    /\ corrected = NoResult
    /\ actual_ep = None
    /\ grid = None
    /\ valid_moves = None
    /\ printed = None
    /\ BishopIdle

\* either script is run on the string: validate_en_passant.py's test, or
\* analyze_position.py's main
NextRaw == ValidateEnPassant \/ ParseAndDisplayBoard \/ AnalyzePawnMoves

SpecRaw == InitRaw /\ [][NextRaw]_vars

(***************************************************************************)
(* Chess coordinates, for stating the claims: file 1..8 is a..h, rank 1..8 *)
(***************************************************************************)
At(b, file, rank) == b[9 - rank][file]
FileNo(c) == IndexIn(files, c)
Beside(file) == {file - 1, file + 1} \cap (1..8)
Dash == <<"-">>

\* an en-passant capture on square e is possible in pos: White just moved
\* (stm is not "w"): e on rank 3, a white pawn on rank 4 of its file, a black
\* pawn beside that pawn; Black just moved: rank 6, rank 5, colours exchanged
CapturePossible(pos, e) ==
    /\ Len(e) = 2
    /\ InSeq(files, e[1])
    /\ LET whiteMoved == pos.stm # "w"
           rank == IF whiteMoved THEN 4 ELSE 5
       IN  /\ e[2] = (IF whiteMoved THEN "3" ELSE "6")
           /\ At(pos.board, FileNo(e[1]), rank) = (IF whiteMoved THEN "P" ELSE "p")
           /\ \E g \in Beside(FileNo(e[1])) :
                 At(pos.board, g, rank) = (IF whiteMoved THEN "p" ELSE "P")

Returned == pc = "done" /\ corrected.exc = "none"

C2Case ==
    /\ Len(position.ep) = 2
    /\ InSeq(files, position.ep[1])
    /\ position.ep[2] = "6"
    /\ At(position.board, FileNo(position.ep[1]), 5) = "p"
    /\ \E g \in Beside(FileNo(position.ep[1])) : At(position.board, g, 5) = "P"

C3Case ==
    /\ last_move = <<(<<"e", "2">>), (<<"e", "4">>)>>
    /\ At(position.board, 5, 5) = "p"
    /\ position.stm = "b"
    /\ position.ep = <<"e", "3">>

NoBlackPawnBesideE4 ==
    At(position.board, 4, 4) # "p" /\ At(position.board, 6, 4) # "p"

SingleAdvance ==
    /\ last_move # None
    /\ LET d == IntOf(last_move[2][2]) - IntOf(last_move[1][2])
       IN  d = 1 \/ d = -1

\* C4: after a single pawn advance the corrected en-passant field is "-",
\* whatever field was supplied and whatever pawns stand beside the pawn
C4_SingleAdvanceLeavesNoTarget ==
    (Returned /\ SingleAdvance) => actual_ep = Dash

\* the name of the square on file 1..8 and rank 1..8
Sq(file, rank) == <<files[file], Digits[rank + 1]>>

Terminated == pc \in {"done", "raised"}

\* the k-th move returned is pawn `from`'s move to `to`
IsMoveOf(k, from, to) ==
    /\ valid_moves[k] = to
    /\ printed[k].from = from
    /\ printed[k].move = to

\* C5: the square two ranks ahead of a pawn of the analysed colour is in the
\* returned list as that pawn's move iff the pawn stands on its home rank
\* (2 for White, 7 for Black) and the intermediate and the destination square
\* are both empty
C5_DoubleAdvanceIffHomeAndBothEmpty ==
    Terminated =>
        /\ pc = "done"
        /\ Len(valid_moves) = Len(printed)
        /\ \A file \in 1..8, rank \in 1..8 :
              LET fwd == IF side = "white" THEN 1 ELSE -1
                  home == IF side = "white" THEN 2 ELSE 7
                  dest == rank + 2 * fwd
              IN  (At(grid, file, rank) = (IF side = "white" THEN "P" ELSE "p")
                     /\ dest \in 1..8) =>
                  ((\E k \in 1..Len(valid_moves) :
                        IsMoveOf(k, Sq(file, rank), Sq(file, dest)))
                   <=> (/\ rank = home
                        /\ At(grid, file, rank + fwd) = "."
                        /\ At(grid, file, dest) = "."))

\* the pawn b2 at home, b3 occupied, b4 empty: no double advance of b2
C5_Witness ==
    /\ pc = "done"
    /\ side = "white"
    /\ At(grid, 2, 2) = "P"
    /\ At(grid, 2, 3) # "."
    /\ At(grid, 2, 4) = "."
    /\ \A k \in 1..Len(printed) : printed[k].from # Sq(2, 2)
    /\ \E k \in 1..Len(printed) : printed[k].double

\* the state string with its castling, en-passant and counter fields replaced
WithTail(f, tail) ==
    LET parts == Split(f)
    IN  Reconstruct(parts[1], parts[2], tail[1], tail[2], tail[3], tail[4])

OtherTails ==
    { <<(<<"-">>), (<<"-">>), (<<"0">>), (<<"2">>)>>,
      <<(<<"K","Q","k","q">>), (<<"e","3">>), (<<"0">>), (<<"2">>)>>,
      <<(<<"K","Q","k","q">>), (<<"e","6">>), (<<"5">>), (<<"1","0">>)>>,
      <<(<<"K","q">>), (<<"b","3">>), (<<"0">>), (<<"1">>)>> }

\* the list main gets for state string f: parse, then analyse
PawnMovesOf(f, c) ==
    LET r == parse_and_display_board(f)
    IN  IF r.exc # "none" THEN <<"raised">>
        ELSE LET a == analyze_pawn_moves(r.value, c)
             IN  IF a.exc # "none" THEN <<"raised">> ELSE Moves(a.lines)

\* C6: in the position after 1.a3 e5 with White analysed, whether the
\* en-passant field is e6 or "-", b3 is in the valid moves and b2 is its only
\* origin; and the list returned is the same for every state string that
\* differs only in the castling, en-passant and counter fields
C6_SingleAdvanceIndependentOfEnPassant ==
    Terminated =>
        /\ pc = "done"
        /\ (position.board = ProblemBoard /\ side = "white") =>
              /\ \E k \in 1..Len(valid_moves) : IsMoveOf(k, Sq(2, 2), Sq(2, 3))
              /\ \A k \in 1..Len(valid_moves) :
                    valid_moves[k] = Sq(2, 3) => printed[k].from = Sq(2, 2)
        /\ \A tail \in OtherTails : PawnMovesOf(WithTail(fen, tail), side) = valid_moves

\* the position of the claim with the wrong field e6
C6_Witness ==
    /\ pc = "done"
    /\ position.board = ProblemBoard
    /\ position.ep = <<"e", "6">>
    /\ side = "white"
    /\ \E k \in 1..Len(valid_moves) : IsMoveOf(k, Sq(2, 2), Sq(2, 3))

(***************************************************************************)
(* The bishop claims, in chess coordinates                                 *)
(***************************************************************************)
FileOf(sq) == IndexIn(files, sq[1])
RankOf(sq) == IntOf(sq[2])
Sign(n) == IF n > 0 THEN 1 ELSE IF n < 0 THEN -1 ELSE 0

OnDiagonal(from, to) ==
    /\ Abs(FileOf(to) - FileOf(from)) = Abs(RankOf(to) - RankOf(from))
    /\ FileOf(to) # FileOf(from)

\* the squares strictly between two squares of a diagonal, as <<file, rank>>
Between(from, to) ==
    { <<FileOf(from) + i * Sign(FileOf(to) - FileOf(from)),
        RankOf(from) + i * Sign(RankOf(to) - RankOf(from))>> :
      i \in 1..(Abs(FileOf(to) - FileOf(from)) - 1) }

PathClear(b, from, to) == \A sq \in Between(from, to) : At(b, sq[1], sq[2]) = "."

WhitePieces == {"P", "N", "B", "R", "Q", "K"}
BlackPieces == {"p", "n", "b", "r", "q", "k"}
Own(c) == IF c = "white" THEN WhitePieces ELSE BlackPieces
Opposing(c) == IF c = "white" THEN BlackPieces ELSE WhitePieces
PieceAt(b, sq) == At(b, FileOf(sq), RankOf(sq))

\* the calls of can_bishop_move_to made so far, on an origin and a
\* destination of one diagonal
DiagonalCalls == { k \in 1..Len(checked) : OnDiagonal(checked[k].bishop_pos, dest_square) }

\* C7 as stated: on a common diagonal, a piece strictly between origin and
\* destination makes the move not legal (path blocked), and a clear path
\* makes it legal
C7_BlockedOrLegal ==
    \A k \in DiagonalCalls :
        LET r == checked[k].result
        IN  IF PathClear(grid, checked[k].bishop_pos, dest_square)
            THEN r.exc = "none" /\ r.can_move
            ELSE r.exc = "none" /\ ~r.can_move /\ r.reason = "Path blocked"

\* C7 amended: a piece strictly between makes the move not legal (path
\* blocked); with a clear path the move is legal unless the destination holds
\* a piece of the mover's own colour
C7_BlockedOrLegalUnlessOwnPiece ==
    \A k \in DiagonalCalls :
        LET r == checked[k].result
        IN  IF PathClear(grid, checked[k].bishop_pos, dest_square)
            THEN r.exc = "none" /\ (r.can_move <=> PieceAt(grid, dest_square) \notin Own(side))
            ELSE r.exc = "none" /\ ~r.can_move /\ r.reason = "Path blocked"

\* a path of two squares blocked by a piece of the other side, the
\* destination empty
C7_Witness ==
    \E k \in DiagonalCalls :
        /\ \E sq \in Between(checked[k].bishop_pos, dest_square) :
              At(grid, sq[1], sq[2]) \in Opposing(side)
        /\ Cardinality(Between(checked[k].bishop_pos, dest_square)) = 2
        /\ PieceAt(grid, dest_square) = "."
        /\ ~checked[k].result.can_move

\* C8: along a diagonal with a clear path the move is refused when the
\* destination holds a piece of the mover's colour and accepted, as a
\* capture, when it holds a piece of the other colour
C8_OwnPieceRefusedCaptureAccepted ==
    \A k \in DiagonalCalls :
        LET r == checked[k].result
        IN  PathClear(grid, checked[k].bishop_pos, dest_square) =>
              /\ PieceAt(grid, dest_square) \in Own(side) =>
                    (r.exc = "none" /\ ~r.can_move
                       /\ r.reason = "Destination occupied by own piece")
              /\ PieceAt(grid, dest_square) \in Opposing(side) =>
                    (r.exc = "none" /\ r.can_move)

\* Be2 from the starting position: the bishop f1 refused, e2 holds a white pawn
C8_Witness ==
    /\ position.board = StartBoard
    /\ side = "white"
    /\ dest_square = <<"e", "2">>
    /\ \E k \in DiagonalCalls :
          /\ checked[k].bishop_pos = <<"f", "1">>
          /\ checked[k].result.reason = "Destination occupied by own piece"

\* the bishops of the side to move that can move to the destination
Reaching ==
    { n \in 1..Len(bishops) :
        LET r == can_bishop_move_to(grid, bishops[n], dest_square, side)
        IN  r.exc = "none" /\ r.can_move }

\* C9: when more than one bishop of the side to move can reach the
\* destination, the move is not accepted with one of them as origin
C9_AmbiguousNotAccepted ==
    (pc = "done" /\ Cardinality(Reaching) > 1) => ~valid_move

\* the case of C10: Be2 with White to move in the position with both bishops
\* developed
C10Case ==
    /\ position.board = DevelopedBoard
    /\ position.stm = "w"
    /\ move = <<"B", "e", "2">>

Squares == { Sq(file, rank) : file \in 1..8, rank \in 1..8 }
Destination == SubSeq(move, Len(move) - 1, Len(move))
ToMove == IF position.stm = "w" THEN "white" ELSE "black"

\* the bishops of the side to move that reach the destination by the rule of
\* the game: on a diagonal of it, nothing between, no piece of their own
\* colour on it
Candidates ==
    { sq \in Squares :
        /\ PieceAt(position.board, sq) = (IF ToMove = "white" THEN "B" ELSE "b")
        /\ OnDiagonal(sq, Destination)
        /\ PathClear(position.board, sq, Destination)
        /\ PieceAt(position.board, Destination) \notin Own(ToMove) }

PieceLetters == WhitePieces \cup BlackPieces

\* the squares a rank of the placement field describes
RECURSIVE RankWidth(_)
RankWidth(rank) ==
    IF rank = <<>> THEN 0
    ELSE (IF IsDigit(Head(rank)) THEN IntOf(Head(rank)) ELSE 1) + RankWidth(Tail(rank))

\* exactly 8 ranks of exactly 8 files, of piece letters and digits 1-8 only
WellFormedPlacement(pl) ==
    LET ranks == SplitOn(pl, "/")
    IN  /\ Len(ranks) = 8
        /\ \A k \in 1..Len(ranks) :
              /\ RankWidth(ranks[k]) = 8
              /\ \A i \in 1..Len(ranks[k]) :
                    ranks[k][i] \in PieceLetters \cup {"1","2","3","4","5","6","7","8"}

\* C12: a state string whose placement field is not 8 ranks of 8 files of
\* piece letters and digits 1-8 is not decoded: no grid is returned for it
\* and validate_en_passant does not return a state string for it; a grid
\* that is returned is 8x8
C12_MalformedPlacementRejected ==
    /\ grid # None => Is8x8(grid)
    /\ ~WellFormedPlacement(position.fields[1]) =>
          /\ grid = None
          /\ ~(Returned /\ Len(position.fields) = 6)

\* C13: an input that does not split into exactly six fields is returned by
\* validate_en_passant unchanged, character for character: nothing of it is
\* parsed, inspected or corrected, nothing is raised
C13_NotSixFieldsReturnedUnchanged ==
    (corrected # NoResult /\ Len(position.fields) # 6) => corrected = Return(fen)

\* seven fields, the fourth a one-character field that cannot be inspected
C13_Witness ==
    /\ Len(position.fields) = 7
    /\ position.ep = <<"e">>
    /\ corrected = Return(fen)

\* the fields separated by single spaces, nothing before or after them
SingleSpaced(fields) == Raw(fields, [at |-> 1, width |-> 1, char |-> " "])

\* an accepted state string whose en-passant field was returned as it was
\* supplied
AcceptedUncorrected ==
    /\ Returned
    /\ Len(position.fields) = 6
    /\ WellFormedPlacement(position.fields[1])
    /\ actual_ep = position.ep

\* C14 as stated: an accepted state string whose en-passant field needs no
\* correction is returned byte for byte, whatever whitespace separates its
\* fields
C14_RoundTripByteIdentical ==
    AcceptedUncorrected => corrected.value = fen

\* C14 amended: an accepted state string whose en-passant field needs no
\* correction is returned as its six fields separated by single spaces; the
\* result is the input byte for byte exactly when the input is written that
\* way
C14_RoundTripSingleSpaced ==
    AcceptedUncorrected =>
        /\ corrected.value = SingleSpaced(position.fields)
        /\ corrected.value = fen <=> fen = SingleSpaced(position.fields)

\* the field e6 kept, the input written with other whitespace than single
\* spaces: the string returned is not the input
C14_Witness ==
    /\ AcceptedUncorrected
    /\ position.ep = <<"e", "6">>
    /\ fen # SingleSpaced(position.fields)
    /\ corrected.value # fen

\* C15: for a six-field input that validate_en_passant returns a string for,
\* the string has six fields; placement, side to move, castling, halfmove
\* and fullmove are those of the input; the en-passant field is that of the
\* input or "-", and "-" when the input has "-"
C15_OnlyEnPassantTowardsDash ==
    (Returned /\ Len(position.fields) = 6) =>
        LET out == Split(corrected.value)
        IN  /\ Len(out) = 6
            /\ \A k \in {1, 2, 3, 5, 6} : out[k] = position.fields[k]
            /\ out[4] \in {position.fields[4], Dash}
            /\ position.fields[4] = Dash => out[4] = Dash

\* a field e3 corrected to "-", the other five fields as supplied
C15_Witness ==
    /\ Returned
    /\ Len(position.fields) = 6
    /\ position.fields[4] = <<"e", "3">>
    /\ Split(corrected.value)
          = [position.fields EXCEPT ![4] = Dash]

(***************************************************************************)
(* One origin for every pawn move                                          *)
(***************************************************************************)
\* C16: in the list analyze_pawn_moves returns no destination appears twice,
\* and every entry is the move of one pawn of the analysed colour: the pawn
\* one rank behind the destination, or, that square being empty, the pawn
\* on its home rank two ranks behind it
C16_OneOriginPerDestination ==
    Terminated =>
        /\ pc = "done"
        /\ Len(valid_moves) = Len(printed)
        /\ \A j, k \in 1..Len(valid_moves) : valid_moves[j] = valid_moves[k] => j = k
        /\ \A k \in 1..Len(valid_moves) :
              LET fwd == IF side = "white" THEN 1 ELSE -1
                  home == IF side = "white" THEN 2 ELSE 7
                  pawn == IF side = "white" THEN "P" ELSE "p"
                  to == valid_moves[k]
                  from == printed[k].from
                  behind == Sq(FileOf(to), RankOf(to) - fwd)
              IN  /\ printed[k].move = to
                  /\ PieceAt(grid, from) = pawn
                  /\ FileOf(from) = FileOf(to)
                  /\ IF PieceAt(grid, behind) = pawn
                     THEN from = behind
                     ELSE /\ PieceAt(grid, behind) = "."
                          /\ RankOf(from) = home
                          /\ RankOf(to) = home + 2 * fwd

\* white pawns on b2 and b3, b4 empty: b4 is the move of b3 only
C16_Witness ==
    /\ pc = "done"
    /\ side = "white"
    /\ At(grid, 2, 2) = "P"
    /\ At(grid, 2, 3) = "P"
    /\ \E k \in 1..Len(valid_moves) : IsMoveOf(k, Sq(2, 3), Sq(2, 4))
    /\ Cardinality({k \in 1..Len(valid_moves) : valid_moves[k] = Sq(2, 4)}) = 1

====
